---- MODULE Spec2Model ----
(***************************************************************************)
(* The singly linked stack of DaveLanday/Learning_Rust in its three forms: *)
(*   first    src/lists/src/first.rs          enum Link { Empty, More }    *)
(*   second   src/second.rs                   type Link = Option<Box<Node>>*)
(*   generic  src/lists/src/generic_lists.rs  List<T> with peek, peek_mut  *)
(* Boxes are nodes of one heap; a Link is a node id or Null.  A move out   *)
(* of a place leaves Null behind (mem::replace / Option::take / a moved    *)
(* local).  Every operation is a sequence of steps, one per statement, so  *)
(* that the states in which the head is temporarily taken are states of    *)
(* the model.                                                              *)
(***************************************************************************)
EXTENDS Integers, Sequences, FiniteSets, TLC

\* ------------------------------------------------------------- bounds
\* A list is never pushed beyond MaxLen elements.
MaxLen == 3

\* ------------------------------------------------------ program values
Lists == {"first", "second", "generic"}
\* The elements the tests push (test::basics, test::peek) ...
Values == {1, 2, 3, 4, 5}
\* ... and the value test::peek writes through peek_mut.
Written == {42}

Null == 0
Nodes == 1 .. (MaxLen * Cardinality(Lists))
None == <<>>
Some(v) == <<v>>

\* test::basics, one entry per call with the value its assert_eq! expects.
Basics ==
  << [op |-> "pop",  arg |-> 0, ret |-> None],
     [op |-> "push", arg |-> 1, ret |-> None],
     [op |-> "push", arg |-> 2, ret |-> None],
     [op |-> "push", arg |-> 3, ret |-> None],
     [op |-> "pop",  arg |-> 0, ret |-> Some(3)],
     [op |-> "pop",  arg |-> 0, ret |-> Some(2)],
     [op |-> "push", arg |-> 4, ret |-> None],
     [op |-> "push", arg |-> 5, ret |-> None],
     [op |-> "pop",  arg |-> 0, ret |-> Some(5)],
     [op |-> "pop",  arg |-> 0, ret |-> Some(4)],
     [op |-> "pop",  arg |-> 0, ret |-> Some(1)],
     [op |-> "pop",  arg |-> 0, ret |-> None] >>

VARIABLES
  \* the heap
  head,        \* [Lists -> Link]    List.head
  next,        \* [Nodes -> Link]    Node.next
  elem,        \* [Nodes -> value]   Node.elem
  live,        \* nodes allocated by Box::new and not yet released
  \* the handles
  alive,       \* [Lists -> BOOLEAN] constructed and not yet dropped
  lease,       \* [Lists -> Link]    the node a live &mut T of peek_mut points into
  \* the operation in progress and its locals
  pc, self, arg,
  taken,       \* push: the link moved out of self.head; pop: `node`
  new_node,    \* push: new_node
  cur_link,    \* drop: cur_link
  boxed_node,  \* drop: boxed_node
  res,         \* pop: `result` (first.rs), the closure's value (second, generic)
  \* what the caller sees
  result,      \* the value the last completed call returned
  lastOp,      \* the last completed call
  \* history (never read by the program)
  stack,       \* [Lists -> Seq([pushed, now])] elements pushed and not yet popped
  count,       \* [Lists -> Int] pushes minus pops that returned a value
  script,      \* [Lists -> Int] how far the calls so far follow test::basics, or Off
  run,         \* [Lists -> record] a run of pushes followed by a run of pops
  peeked,      \* [Lists -> Option] what the peek just before returned
  wrote,       \* [Lists -> Option] what was written to the top and not touched since
  prev,        \* the last completed call [list, op, arg, ret], recorded while the
               \* three implementations are in use side by side
  entry,       \* the chain and the elements the call in progress found at its start
  dropN, iters, freed  \* teardown: nodes at its start, loop iterations, nodes released

heapVars == <<head, next, elem, live>>
handleVars == <<alive, lease>>
localVars == <<taken, new_node, cur_link, boxed_node, res>>
dropVars == <<dropN, iters, freed>>
histVars == <<stack, count, script, run, peeked, wrote, prev, entry>>
vars == <<head, next, elem, live, alive, lease, pc, self, arg, taken, new_node,
          cur_link, boxed_node, res, result, lastOp, stack, count, script, run,
          peeked, wrote, prev, entry, dropN, iters, freed>>

\* script: the calls on the list have left test::basics.
Off == Len(Basics) + 1
\* run: n values pushed onto a new list with no pop in between (those not yet
\* popped again are vals), then k pops with no push in between.
RunOff == [phase |-> "off", vals |-> <<>>, n |-> 0, k |-> 0]
RunNew == [phase |-> "push", vals |-> <<>>, n |-> 0, k |-> 0]

\* ------------------------------------------------------------ the heap
RECURSIVE ChainFrom(_, _, _)
\* The nodes met following nxt from link n, at most fuel of them.
ChainFrom(nxt, n, fuel) ==
  IF n = Null \/ fuel = 0 THEN <<>>
  ELSE <<n>> \o ChainFrom(nxt, nxt[n], fuel - 1)

Chain(n) == ChainFrom(next, n, Cardinality(Nodes) + 1)
Range(s) == {s[i] : i \in 1 .. Len(s)}
\* Everything a Box owns: dropping link n releases these nodes, each node's
\* drop glue dropping its `next` field in turn.
Owned(n) == Range(Chain(n))
\* The nodes some list owns, directly or through its chain.
Reachable == UNION {Owned(head[l]) : l \in Lists}
\* The elements of list l, top first.
Contents(l) == [i \in 1 .. Len(Chain(head[l])) |-> elem[Chain(head[l])[i]]]

\* Box::new: a free node.  Which one is not observable by the program (it
\* never compares or prints an address), so the lowest is taken.
Alloc == CHOOSE n \in Nodes \ live : \A m \in Nodes \ live : n <= m

\* ------------------------------------------------------------- history
NoCall == [list |-> "", op |-> "", arg |-> 0, ret |-> None]
NoEntry == [chain |-> <<>>, elems |-> <<>>]
\* The three implementations are in use side by side.
SideBySide == \A m \in Lists : alive[m]
\* What a call on l finds when it starts.
EntryOf(l) == [chain |-> Chain(head[l]), elems |-> Contents(l)]

\* What the caller has observed once call op(a) on l has returned r.
StackAfter(l, op, a, r) ==
  CASE op = "push" -> Append(stack[l], [pushed |-> a, now |-> a])
    [] op = "pop" /\ r # None /\ stack[l] # <<>> -> SubSeq(stack[l], 1, Len(stack[l]) - 1)
    [] op = "write" /\ stack[l] # <<>> ->
         [stack[l] EXCEPT ![Len(stack[l])] = [pushed |-> @.pushed, now |-> a]]
    [] op \in {"new", "drop"} -> <<>>
    [] OTHER -> stack[l]

CountAfter(l, op, r) ==
  CASE op = "push" -> count[l] + 1
    [] op = "pop" /\ r # None -> count[l] - 1
    [] op \in {"new", "drop"} -> 0
    [] OTHER -> count[l]

ScriptAfter(l, op, a) ==
  CASE op = "new" -> 0
    [] op = "drop" -> Off
    [] op = "release" -> script[l]
    \* the test's opening pop on the empty list may be left out
    [] script[l] = 0 /\ op = Basics[2].op /\ a = Basics[2].arg -> 2
    [] OTHER ->
         IF /\ script[l] # Off
            /\ script[l] < Len(Basics)
            /\ Basics[script[l] + 1].op = op
            /\ Basics[script[l] + 1].arg = a
         THEN script[l] + 1
         ELSE Off

RunAfter(l, op, a) ==
  CASE op = "new" -> RunNew
    [] op = "push" ->
         IF run[l].phase = "push"
         THEN [run[l] EXCEPT !.vals = Append(@, a), !.n = @ + 1]
         ELSE RunOff
    [] op = "pop" ->
         IF run[l].phase \in {"push", "pop"} /\ run[l].k <= run[l].n
         THEN [run[l] EXCEPT !.phase = "pop", !.k = @ + 1,
                             !.vals = SubSeq(@, 1, run[l].n - run[l].k - 1)]
         ELSE RunOff
    [] op \in {"write", "drop"} -> RunOff
    [] OTHER -> run[l]

\* peeked and wrote speak of the top the next call finds, and are kept
\* through the pop that takes that top away; a call on another list in
\* between ends them.
PeekedNow(l) == IF lastOp = "peek" /\ self = l THEN peeked[l] ELSE None
WroteNow(l) == IF lastOp = "pop" /\ self = l THEN None ELSE wrote[l]

PeekedAfter(l, op, r) ==
  CASE op = "peek" -> r
    [] op = "pop" -> peeked[l]
    [] OTHER -> None

WroteAfter(l, op, a) ==
  CASE op = "write" -> Some(a)
    [] op \in {"peek", "peek_mut", "release"} -> WroteNow(l)
    [] op = "pop" -> wrote[l]
    [] OTHER -> None

\* Call op(a) on list l returns r.
Return(l, op, a, r) ==
  /\ result' = r
  /\ lastOp' = op
  /\ stack' = [stack EXCEPT ![l] = StackAfter(l, op, a, r)]
  /\ count' = [count EXCEPT ![l] = CountAfter(l, op, r)]
  /\ script' = [script EXCEPT ![l] = ScriptAfter(l, op, a)]
  /\ run' = [run EXCEPT ![l] = RunAfter(l, op, a)]
  /\ peeked' = [peeked EXCEPT ![l] = PeekedAfter(l, op, r)]
  /\ wrote' = [wrote EXCEPT ![l] = WroteAfter(l, op, a)]
  /\ prev' = IF SideBySide THEN [list |-> l, op |-> op, arg |-> a, ret |-> r]
             ELSE NoCall
  /\ entry' = NoEntry

\* The first step of a call: the caller waits for it to return.
Enter(l) ==
  /\ result' = None
  /\ lastOp' = "call"
  /\ peeked' = [m \in Lists |-> IF m = l THEN PeekedNow(l) ELSE None]
  /\ wrote' = [m \in Lists |-> IF m = l THEN WroteNow(l) ELSE None]
  /\ entry' = EntryOf(l)
  /\ UNCHANGED <<stack, count, script, run, prev>>

\* The first step of drop: the caller has given the list up.
EnterDrop(l) ==
  /\ result' = None
  /\ lastOp' = "call"
  /\ stack' = [stack EXCEPT ![l] = <<>>]
  /\ count' = [count EXCEPT ![l] = 0]
  /\ script' = [script EXCEPT ![l] = Off]
  /\ run' = [run EXCEPT ![l] = RunOff]
  /\ peeked' = [peeked EXCEPT ![l] = None]
  /\ wrote' = [wrote EXCEPT ![l] = None]
  /\ prev' = prev
  /\ entry' = NoEntry

\* A later step inside a call: the caller observes nothing.
Silent == UNCHANGED <<result, lastOp, stack, count, script, run, peeked, wrote, prev, entry>>

\* The nodes in S are returned to the allocator.
Release(S) ==
  /\ live' = live \ S
  /\ next' = [n \in Nodes |-> IF n \in S THEN Null ELSE next[n]]
  /\ elem' = [n \in Nodes |-> IF n \in S THEN 0 ELSE elem[n]]

\* A faulty variant: the place keeps its value: a copy, not a move
MutTakeLeavesCopy(old) == old
\* What mem::replace(&mut place, Link::Empty) / place.take() leaves in the
\* place whose value old it returns.
TakeLeaves(old) == Null

\* A faulty variant: the reference does not borrow the list (a raw pointer),
\* so calls are accepted while it is alive
MutCallableAliased(l) == pc = "idle" /\ alive[l]
\* A call on l may start: nothing is running, the handle exists and no
\* exclusive borrow of it is alive (the borrow checker rejects the call
\* otherwise).
Callable(l) == pc = "idle" /\ alive[l] /\ lease[l] = Null

\* ---------------------------------------------------------------- init
Init ==
  /\ head = [l \in Lists |-> Null]
  /\ next = [n \in Nodes |-> Null]
  /\ elem = [n \in Nodes |-> 0]
  /\ live = {}
  /\ \E l \in Lists : alive = [m \in Lists |-> m = l]
  /\ lease = [l \in Lists |-> Null]
  /\ pc = "idle"
  /\ self \in {l \in Lists : alive[l]}
  /\ arg = 0
  /\ taken = Null /\ new_node = Null /\ cur_link = Null /\ boxed_node = Null
  /\ res = None
  /\ result = None
  /\ lastOp = "new"
  /\ stack = [l \in Lists |-> <<>>]
  /\ count = [l \in Lists |-> 0]
  /\ script = [l \in Lists |-> 0]
  /\ run = [l \in Lists |-> RunNew]
  /\ peeked = [l \in Lists |-> None]
  /\ wrote = [l \in Lists |-> None]
  /\ prev = NoCall
  /\ entry = NoEntry
  /\ dropN = 0 /\ iters = 0 /\ freed = 0

\* List::new() for a handle whose previous list has been dropped.
New(l) ==
  /\ pc = "idle"
  /\ \A m \in Lists : ~alive[m]
  /\ alive' = [alive EXCEPT ![l] = TRUE]
  /\ head' = [head EXCEPT ![l] = Null]
  /\ self' = l
  /\ arg' = 0
  /\ dropN' = 0 /\ iters' = 0 /\ freed' = 0
  /\ Return(l, "new", 0, None)
  /\ UNCHANGED <<next, elem, live, lease, pc, localVars>>

\* ---------------------------------------------------------------- push
\* A faulty variant: next: Link::Empty
MutPushNextEmpty(l) == Null
\* A faulty variant: the enum-based list alone loses the old chain on push
MutPushNextFirstEmpty(l) == IF l = "first" THEN Null ELSE head[l]
\* The link that becomes the new node's `next`: the old head, moved out.
PushNext(l) == head[l]

\* mem::replace(&mut self.head, Link::Empty) / self.head.take()
PushTake(l, e) ==
  /\ Callable(l)
  /\ Len(Chain(head[l])) < MaxLen
  /\ self' = l
  /\ arg' = e
  /\ taken' = PushNext(l)
  /\ head' = [head EXCEPT ![l] = TakeLeaves(head[l])]
  /\ pc' = "push_box"
  /\ Enter(l)
  /\ UNCHANGED <<next, elem, live, handleVars, new_node, cur_link, boxed_node, res, dropVars>>

\* Box::new(Node { elem: elem, next: <the taken link> })
PushBox ==
  /\ pc = "push_box"
  /\ Nodes \ live # {}
  /\ new_node' = Alloc
  /\ live' = live \cup {Alloc}
  /\ elem' = [elem EXCEPT ![Alloc] = arg]
  /\ next' = [next EXCEPT ![Alloc] = taken]
  /\ taken' = Null
  /\ pc' = "push_set"
  /\ Silent
  /\ UNCHANGED <<head, handleVars, self, arg, cur_link, boxed_node, res, dropVars>>

\* self.head = Link::More(new_node): the old value of self.head is dropped.
PushSet ==
  /\ pc = "push_set"
  /\ Release(Owned(head[self]))
  /\ head' = [head EXCEPT ![self] = new_node]
  /\ new_node' = Null
  /\ pc' = "idle"
  /\ Return(self, "push", arg, None)
  /\ UNCHANGED <<handleVars, self, arg, taken, cur_link, boxed_node, res, dropVars>>
\* ----------------------------------------------------------------- pop
\* A faulty variant: a default element instead of None
MutPopNoneDefault == Some(0)
\* What pop returns for an empty list.
PopNoneValue == None
\* What pop returns for the detached node.
PopValue(node) == Some(elem[node])
\* A faulty variant: self.head = Link::Empty: the rest of the chain is not relinked
MutPopNewHeadEmpty(node) == Null
\* The link that becomes the head: node.next, moved out of the node.
PopNewHead(node) == next[node]

\* mem::replace(&mut self.head, Link::Empty) / self.head.take(), and the
\* match (first.rs) or map (second.rs, generic_lists.rs) on what was taken.
PopTake(l) ==
  /\ Callable(l)
  /\ self' = l
  /\ arg' = 0
  /\ taken' = head[l]
  /\ head' = [head EXCEPT ![l] = TakeLeaves(head[l])]
  /\ res' = None
  /\ pc' = IF head[l] = Null THEN "pop_none"
           ELSE IF l = "first" THEN "pop_elem" ELSE "pop_head"
  /\ Enter(l)
  /\ UNCHANGED <<next, elem, live, handleVars, new_node, cur_link, boxed_node, dropVars>>

\* Link::Empty => result = None / None.map(..) is None
PopNone ==
  /\ pc = "pop_none"
  /\ pc' = "idle"
  /\ Return(self, "pop", 0, PopNoneValue)
  /\ UNCHANGED <<heapVars, handleVars, self, arg, localVars, dropVars>>

\* result = Some(node.elem) (first.rs: before the head is set) /
\* node.elem (second.rs, generic_lists.rs: after it)
PopElem ==
  /\ pc = "pop_elem"
  /\ res' = PopValue(taken)
  /\ pc' = IF self = "first" THEN "pop_head" ELSE "pop_free"
  /\ Silent
  /\ UNCHANGED <<heapVars, handleVars, self, arg, taken, new_node, cur_link,
                 boxed_node, dropVars>>

\* self.head = node.next: next is moved out of the node, and the old value
\* of self.head is dropped.
PopHead ==
  /\ pc = "pop_head"
  /\ LET S == Owned(head[self]) IN
       /\ live' = live \ S
       /\ next' = [n \in Nodes |-> IF n \in S \/ n = taken THEN Null ELSE next[n]]
       /\ elem' = [n \in Nodes |-> IF n \in S THEN 0 ELSE elem[n]]
  /\ head' = [head EXCEPT ![self] = PopNewHead(taken)]
  /\ pc' = IF self = "first" THEN "pop_free" ELSE "pop_elem"
  /\ Silent
  /\ UNCHANGED <<handleVars, self, arg, localVars, dropVars>>

\* The end of the match arm / of the closure: `node` goes out of scope and
\* its Box is released; the call returns.
PopFree ==
  /\ pc = "pop_free"
  /\ Release(Owned(taken))
  /\ taken' = Null
  /\ res' = None
  /\ pc' = "idle"
  /\ Return(self, "pop", 0, res)
  /\ UNCHANGED <<head, handleVars, self, arg, new_node, cur_link, boxed_node, dropVars>>

\* ---------------------------------------------------- peek and peek_mut
\* A faulty variant: no empty case: a default element stands in for the missing one
MutPeekValueDefault(l) == Some(IF head[l] = Null THEN 0 ELSE elem[head[l]])
\* self.head.as_ref().map(|node| &node.elem), as the caller reads it.
PeekValue(l) == IF head[l] = Null THEN None ELSE Some(elem[head[l]])
\* A faulty variant: the reference points into the node after the head
MutPeekMutRefNext(l) == IF head[l] = Null THEN Null ELSE next[head[l]]
\* self.head.as_mut().map(|node| &mut node.elem): the node referred to.
PeekMutRef(l) == head[l]

\* A faulty variant: peek written with take(): it consumes the list
MutPeekTakes(l) ==
  /\ l = "generic"
  /\ Callable(l)
  /\ self' = l
  /\ arg' = 0
  /\ head' = [head EXCEPT ![l] = Null]
  /\ Release(Owned(head[l]))
  /\ Return(l, "peek", 0, PeekValue(l))
  /\ UNCHANGED <<handleVars, pc, localVars, dropVars>>

Peek(l) ==
  /\ l = "generic"
  /\ Callable(l)
  /\ self' = l
  /\ arg' = 0
  /\ Return(l, "peek", 0, PeekValue(l))
  /\ UNCHANGED <<heapVars, handleVars, pc, localVars, dropVars>>

PeekMut(l) ==
  /\ l = "generic"
  /\ Callable(l)
  /\ self' = l
  /\ arg' = 0
  /\ lease' = [lease EXCEPT ![l] = PeekMutRef(l)]
  /\ Return(l, "peek_mut", 0, PeekValue(l))
  /\ UNCHANGED <<heapVars, alive, pc, localVars, dropVars>>

\* *value = x, through the reference peek_mut returned.
WriteRef(l, x) ==
  /\ pc = "idle"
  /\ lease[l] # Null
  /\ self' = l
  /\ arg' = x
  /\ elem' = [elem EXCEPT ![lease[l]] = x]
  /\ Return(l, "write", x, None)
  /\ UNCHANGED <<head, next, live, handleVars, pc, localVars, dropVars>>

\* The reference goes out of scope.
ReleaseRef(l) ==
  /\ pc = "idle"
  /\ lease[l] # Null
  /\ self' = l
  /\ arg' = 0
  /\ lease' = [lease EXCEPT ![l] = Null]
  /\ Return(l, "release", 0, None)
  /\ UNCHANGED <<heapVars, alive, pc, localVars, dropVars>>

\* ---------------------------------------------------------------- drop
\* A faulty variant: the cursor does not advance
MutDropNextEmpty(node) == Null
\* The link the cursor moves to: boxed_node.next, moved out of the node.
DropNext(node) == next[node]

\* let mut cur_link = mem::replace(&mut self.head, Link::Empty)
DropTake(l) ==
  /\ Callable(l)
  /\ self' = l
  /\ arg' = 0
  /\ cur_link' = head[l]
  /\ head' = [head EXCEPT ![l] = TakeLeaves(head[l])]
  /\ dropN' = Len(Chain(head[l]))
  /\ iters' = 0
  /\ freed' = 0
  /\ pc' = "drop_loop"
  /\ EnterDrop(l)
  /\ UNCHANGED <<next, elem, live, handleVars, taken, new_node, boxed_node, res>>

\* while let Link::More(mut boxed_node) = cur_link
DropEnter ==
  /\ pc = "drop_loop"
  /\ cur_link # Null
  /\ boxed_node' = cur_link
  /\ cur_link' = Null
  /\ pc' = "drop_body"
  /\ Silent
  /\ UNCHANGED <<heapVars, handleVars, self, arg, taken, new_node, res, dropVars>>

\* cur_link = mem::replace(&mut boxed_node.next, Link::Empty)
DropBody ==
  /\ pc = "drop_body"
  /\ cur_link' = DropNext(boxed_node)
  /\ LET S == Owned(cur_link) IN
       /\ live' = live \ S
       /\ next' = [n \in Nodes |-> IF n \in S THEN Null
                                  ELSE IF n = boxed_node THEN TakeLeaves(next[n])
                                  ELSE next[n]]
       /\ elem' = [n \in Nodes |-> IF n \in S THEN 0 ELSE elem[n]]
       /\ freed' = freed + Cardinality(S)
  /\ pc' = "drop_free"
  /\ Silent
  /\ UNCHANGED <<head, handleVars, self, arg, taken, new_node, boxed_node, res,
                 dropN, iters>>

\* The end of the loop body: boxed_node goes out of scope and is released.
DropFree ==
  /\ pc = "drop_free"
  /\ Release(Owned(boxed_node))
  /\ freed' = freed + Cardinality(Owned(boxed_node))
  /\ iters' = iters + 1
  /\ boxed_node' = Null
  /\ pc' = "drop_loop"
  /\ Silent
  /\ UNCHANGED <<head, handleVars, self, arg, taken, new_node, cur_link, res, dropN>>

\* The loop ends on Link::Empty; drop returns and the handle's fields are
\* dropped in turn.
DropExit ==
  /\ pc = "drop_loop"
  /\ cur_link = Null
  /\ Release(Owned(head[self]))
  /\ freed' = freed + Cardinality(Owned(head[self]))
  /\ head' = [head EXCEPT ![self] = Null]
  /\ alive' = [alive EXCEPT ![self] = FALSE]
  /\ pc' = "idle"
  /\ Return(self, "drop", 0, None)
  /\ UNCHANGED <<lease, self, arg, localVars, dropN, iters>>

\* ---------------------------------------------------------------- next
Next ==
  \/ \E l \in Lists : New(l)
  \/ \E l \in Lists, e \in Values : PushTake(l, e)
  \/ PushBox
  \/ PushSet
  \/ \E l \in Lists : PopTake(l)
  \/ PopNone
  \/ PopElem
  \/ PopHead
  \/ PopFree
  \/ \E l \in Lists : Peek(l)
  \/ \E l \in Lists : PeekMut(l)
  \/ \E l \in Lists, x \in Written : WriteRef(l, x)
  \/ \E l \in Lists : ReleaseRef(l)
  \/ \E l \in Lists : DropTake(l)
  \/ DropEnter
  \/ DropBody
  \/ DropFree
  \/ DropExit

Spec == Init /\ [][Next]_vars

\* The steps inside a call always go on: nothing blocks or suspends them.
Running ==
  \/ PushBox \/ PushSet
  \/ PopNone \/ PopElem \/ PopHead \/ PopFree
  \/ DropEnter \/ DropBody \/ DropFree \/ DropExit

FairSpec == Spec /\ WF_vars(Running)

\* ------------------------------------------------- two lists side by side
\* The elements pushed while two lists are in use.
PairValues == {1, 2}

\* List::new() returns the second list: from here on the history follows
\* what each list holds, and no longer compares the calls with test::basics
\* or with a run of pushes and pops, which speak of one list used alone.
ReturnBeside(l) ==
  /\ result' = None
  /\ lastOp' = "new"
  /\ stack' = [stack EXCEPT ![l] = <<>>]
  /\ count' = [count EXCEPT ![l] = 0]
  /\ script' = [m \in Lists |-> Off]
  /\ run' = [m \in Lists |-> RunOff]
  /\ peeked' = [peeked EXCEPT ![l] = None]
  /\ wrote' = [wrote EXCEPT ![l] = None]
  /\ prev' = NoCall
  /\ entry' = NoEntry

\* A faulty variant: the new list starts from the head of the list in use
\* instead of from an empty link
MutNewBesideShares(l) ==
  /\ pc = "idle"
  /\ ~alive[l]
  /\ \A m, k \in Lists : alive[m] /\ alive[k] => m = k
  /\ alive' = [alive EXCEPT ![l] = TRUE]
  /\ head' = [head EXCEPT ![l] =
                 IF \E m \in Lists : alive[m]
                 THEN head[CHOOSE m \in Lists : alive[m]] ELSE Null]
  /\ self' = l
  /\ arg' = 0
  /\ dropN' = 0 /\ iters' = 0 /\ freed' = 0
  /\ ReturnBeside(l)
  /\ UNCHANGED <<next, elem, live, lease, pc, localVars>>

\* List::new() for a second handle, while another list is in use.
NewBeside(l) ==
  /\ pc = "idle"
  /\ ~alive[l]
  /\ \A m, k \in Lists : alive[m] /\ alive[k] => m = k
  /\ alive' = [alive EXCEPT ![l] = TRUE]
  /\ head' = [head EXCEPT ![l] = Null]
  /\ self' = l
  /\ arg' = 0
  /\ dropN' = 0 /\ iters' = 0 /\ freed' = 0
  /\ ReturnBeside(l)
  /\ UNCHANGED <<next, elem, live, lease, pc, localVars>>

\* The calls of a program that uses two lists, one call at a time, in any
\* order; the two lists hold MaxLen elements between them at most.
NextPair ==
  \/ \E l \in Lists : NewBeside(l)
  \/ \E l \in Lists, e \in PairValues :
        Cardinality(live) < MaxLen /\ PushTake(l, e)
  \/ PushBox
  \/ PushSet
  \/ \E l \in Lists : PopTake(l)
  \/ PopNone
  \/ PopElem
  \/ PopHead
  \/ PopFree
  \/ \E l \in Lists : Peek(l)
  \/ \E l \in Lists : PeekMut(l)
  \/ \E l \in Lists, x \in Written : WriteRef(l, x)
  \/ \E l \in Lists : ReleaseRef(l)
  \/ \E l \in Lists : DropTake(l)
  \/ DropEnter
  \/ DropBody
  \/ DropFree
  \/ DropExit

SpecPair == Init /\ [][NextPair]_vars

\* ------------------------------------- the three implementations in step
\* The implementation whose call l repeats; the enum-based list goes first.
Follows(l) == IF l = "generic" THEN "second" ELSE "first"
\* A new call is chosen when the last implementation has repeated the
\* previous one.
NewRound == prev.list \in {NoCall.list, "generic"}

\* List::new() has been called once for each implementation.
InitLock ==
  /\ head = [l \in Lists |-> Null]
  /\ next = [n \in Nodes |-> Null]
  /\ elem = [n \in Nodes |-> 0]
  /\ live = {}
  /\ alive = [l \in Lists |-> TRUE]
  /\ lease = [l \in Lists |-> Null]
  /\ pc = "idle"
  /\ self = "generic"
  /\ arg = 0
  /\ taken = Null /\ new_node = Null /\ cur_link = Null /\ boxed_node = Null
  /\ res = None
  /\ result = None
  /\ lastOp = "new"
  /\ stack = [l \in Lists |-> <<>>]
  /\ count = [l \in Lists |-> 0]
  /\ script = [l \in Lists |-> 0]
  /\ run = [l \in Lists |-> RunNew]
  /\ peeked = [l \in Lists |-> None]
  /\ wrote = [l \in Lists |-> None]
  /\ prev = NoCall
  /\ entry = NoEntry
  /\ dropN = 0 /\ iters = 0 /\ freed = 0

\* One sequence of push and pop calls, each made on the enum-based list
\* first and then repeated on the Option-based and on the generic list.
NextLock ==
  \/ \E e \in Values : NewRound /\ PushTake("first", e)
  \/ NewRound /\ PopTake("first")
  \/ \E l \in Lists \ {"first"} :
        prev.list = Follows(l) /\ prev.op = "push" /\ PushTake(l, prev.arg)
  \/ \E l \in Lists \ {"first"} :
        prev.list = Follows(l) /\ prev.op = "pop" /\ PopTake(l)
  \/ PushBox
  \/ PushSet
  \/ PopNone
  \/ PopElem
  \/ PopHead
  \/ PopFree

SpecLock == InitLock /\ [][NextLock]_vars

\* ------------------------------------------------------- steps, by name
\* A pop on list self returns in this step.
PopReturns == pc \in {"pop_none", "pop_free"} /\ pc' = "idle"
\* A peek / peek_mut on list self' is this step.
PeekStep == pc = "idle" /\ pc' = "idle" /\ lastOp' = "peek"
PeekMutStep == pc = "idle" /\ pc' = "idle" /\ lastOp' = "peek_mut"
Idle == pc = "idle"

\* ---------------------------------------------------------------- C1
\* C1 as stated: every pop returns the most recently pushed value that has
\* not yet been popped, or None if there is none.
C1_AsStated ==
  [][PopReturns =>
       result' = IF stack[self] = <<>> THEN None
                 ELSE Some(stack[self][Len(stack[self])].pushed)]_vars

\* C1, amended: every pop returns the current value of the most recently
\* pushed element not yet popped (the value pushed, or the value last
\* written to it through a peek_mut reference), or None if no such element
\* remains; and while the calls on a new list follow test::basics, every
\* pop returns what the test expects (3, 2, 5, 4, 1, None).
C1_Lifo ==
  [][PopReturns =>
       /\ result' = IF stack[self] = <<>> THEN None
                    ELSE Some(stack[self][Len(stack[self])].now)
       /\ script'[self] # Off => result' = Basics[script'[self]].ret]_vars

\* The whole of test::basics has run on some list, ending with pop = None.
C1_Witness ==
  \E l \in Lists :
     script[l] = Len(Basics) /\ lastOp = "pop" /\ result = None /\ Idle

\* ---------------------------------------------------------------- C2
\* C2: after v1..vn are pushed onto a new list with no pop in between, the
\* k-th of the pops that follow returns v(n+1-k) for k <= n, and the
\* (n+1)th returns None.
C2_ReverseOrder ==
  [][(PopReturns /\ run'[self].phase = "pop") =>
       result' = IF run'[self].k <= run[self].n
                 THEN Some(run[self].vals[run[self].n + 1 - run'[self].k])
                 ELSE None]_vars

\* Three values were pushed and the fourth pop has returned None.
C2_Witness ==
  \E l \in Lists :
     /\ run[l].phase = "pop" /\ run[l].n = 3 /\ run[l].k = 4
     /\ lastOp = "pop" /\ self = l /\ result = None /\ Idle

\* ---------------------------------------------------------------- C3
\* C3: a pop on an empty list returns None; none of its steps changes the
\* head (empty before and after), a link, an element or the set of
\* allocated nodes, and it leaves the handle as List::new() makes it: an
\* empty head, no borrow, no local holding a node.
C3_PopEmpty ==
  [][(pc' = "pop_none" \/ pc = "pop_none") =>
       /\ head[self'] = Null /\ head'[self'] = Null
       /\ UNCHANGED <<head, next, elem, live, alive, lease>>
       /\ pc = "pop_none" =>
            /\ pc' = "idle"
            /\ result' = None
            /\ taken' = Null /\ new_node' = Null
            /\ cur_link' = Null /\ boxed_node' = Null]_vars

\* A list emptied by earlier pops has been popped once more.
C3_Witness ==
  /\ Idle /\ lastOp = "pop" /\ result = None
  /\ head[self] = Null /\ run[self].n >= 1 /\ run[self].k = run[self].n + 1

\* ---------------------------------------------------------------- C4
\* C4: a peek on a non-empty generic list returns its top element and
\* changes nothing (same head, links, elements, nodes, hence same contents
\* and length), and a pop directly after a peek returns what the peek
\* returned.
C4_Peek ==
  [][/\ (PeekStep /\ head[self'] # Null) =>
          /\ self' = "generic"
          /\ result' = Some(Contents(self')[1])
          /\ UNCHANGED <<head, next, elem, live, alive, lease>>
     /\ (PopReturns /\ peeked[self] # None) => result' = peeked[self]]_vars

\* A peek returned a value and the pop directly after it has returned.
C4_Witness ==
  /\ Idle /\ lastOp = "pop" /\ self = "generic"
  /\ peeked[self] # None /\ result = peeked[self]

\* ---------------------------------------------------------------- C5
\* C5: on an empty generic list peek and peek_mut return None, leave the
\* head empty, change no link, element or node, and leave no reference
\* behind.
C5_PeekEmpty ==
  [][((PeekStep \/ PeekMutStep) /\ head[self'] = Null) =>
       /\ result' = None
       /\ head'[self'] = Null
       /\ lease'[self'] = Null
       /\ UNCHANGED <<head, next, elem, live, alive, lease>>]_vars

\* peek_mut has returned None on a list emptied by a pop.
C5_Witness ==
  /\ Idle /\ lastOp = "peek_mut" /\ result = None
  /\ head[self] = Null /\ run[self].k >= 1

\* ---------------------------------------------------------------- C6
\* C6: once x has been written to the top element through the reference
\* peek_mut returned, and until a push or a pop changes the top, every peek
\* returns x and the next pop returns x.
C6_WriteThrough ==
  [][/\ (PeekStep /\ WroteNow(self') # None) => result' = WroteNow(self')
     /\ (PopReturns /\ wrote[self] # None) => result' = wrote[self]]_vars

\* 42 was written to the top, a peek returned it and the next pop too.
C6_Witness ==
  /\ Idle /\ lastOp = "pop" /\ self = "generic"
  /\ wrote[self] = Some(42) /\ result = Some(42) /\ peeked[self] = Some(42)

\* ---------------------------------------------------------------- C7
\* What a step of drop's loop does: the end of an iteration releases exactly
\* the one node it detached; the exit finds one iteration per node the list
\* held, the head and the cursor empty, and every node released.
C7_DropStep ==
  /\ (pc = "drop_free" /\ pc' = "drop_loop") =>
       /\ iters' = iters + 1
       /\ freed' = freed + 1
       /\ live' = live \ {boxed_node}
       /\ boxed_node \in live
  /\ (pc = "drop_loop" /\ pc' = "idle") =>
       /\ iters = dropN
       /\ freed' = dropN
       /\ head'[self] = Null
       /\ cur_link' = Null
       /\ live' = live
       /\ live' = Reachable'

\* C7: dropping a list of n nodes terminates: every iteration of the
\* teardown loop detaches and releases one node, the loop ends after n
\* iterations with the head and the cursor empty and all n nodes released,
\* and a drop that has started always returns.
C7_DropTerminates ==
  /\ [][C7_DropStep]_vars
  /\ (pc \in {"drop_loop", "drop_body", "drop_free"}) ~> (Idle /\ lastOp = "drop")

\* A list of three nodes has been dropped.
C7_Witness ==
  /\ Idle /\ lastOp = "drop" /\ ~alive[self]
  /\ dropN = 3 /\ iters = 3 /\ freed = 3

\* ---------------------------------------------------------------- C8
NoRepeat(s) == \A i, j \in 1 .. Len(s) : s[i] = s[j] => i = j

\* C8: between operations, the chain from the head of every list visits no
\* node twice and reaches the empty link after exactly as many nodes as
\* there were pushes minus pops that returned a value.
C8_ChainLength ==
  Idle =>
    \A l \in Lists :
       /\ NoRepeat(Chain(head[l]))
       /\ Len(Chain(head[l])) <= Cardinality(Nodes)
       /\ Len(Chain(head[l])) = count[l]

\* Three pushes and one pop that returned a value: two nodes.
C8_Witness ==
  /\ Idle /\ lastOp = "pop" /\ result # None
  /\ count[self] = 2 /\ Len(Chain(head[self])) = 2

\* ---------------------------------------------------------------- C9
\* The places that own node n: a list's head, a live node's next link, a
\* local of the operation in progress.
Owners(n) ==
  {<<"head", l>> : l \in {m \in Lists : head[m] = n}}
    \cup {<<"next", m>> : m \in {k \in live : next[k] = n}}
    \cup {<<"local", v>> : v \in {w \in {"taken", "new_node", "cur_link", "boxed_node"} :
             CASE w = "taken" -> taken = n
               [] w = "new_node" -> new_node = n
               [] w = "cur_link" -> cur_link = n
               [] w = "boxed_node" -> boxed_node = n}}

\* C9: in every state, also inside push, pop and drop, every allocated and
\* unreleased node has exactly one owner, and no node is among the nodes
\* its own next link owns (it owns neither itself nor a predecessor).
C9_SingleOwner ==
  \A n \in live :
     /\ Cardinality(Owners(n)) = 1
     /\ n \notin Owned(next[n])

\* Inside a push onto a non-empty list: the head is taken, the old chain is
\* owned by the new node, the new node by the local.
C9_Witness ==
  /\ pc = "push_set" /\ head[self] = Null
  /\ new_node \in live /\ next[new_node] \in live
  /\ Owners(new_node) = {<<"local", "new_node">>}

\* --------------------------------------------------------------- C10
\* C10: when a pop that returns a value completes, the detached node is
\* released and no longer reachable from the head; and between operations
\* the allocated, unreleased nodes are exactly those reachable from a head,
\* all of them live.
C10_NoResidue ==
  /\ [][(pc = "pop_free" /\ pc' = "idle") =>
          /\ taken \in live
          /\ taken \notin live'
          /\ taken \notin Range(ChainFrom(next', head'[self], Cardinality(Nodes) + 1))]_vars
  /\ [](Idle => live = Reachable)

\* A pop has returned a value and left a non-empty list.
C10_Witness ==
  /\ Idle /\ lastOp = "pop" /\ result # None
  /\ head[self] # Null /\ live = Owned(head[self])

\* --------------------------------------------------------------- C11
\* The list a step acts upon, when the reference peek_mut returned for it is
\* alive before the step.
Borrowed(l) == lease[l] # Null /\ self' = l

\* C11: while a reference returned by peek_mut is alive no call on that list
\* is running, and every step that acts on the list is a write through the
\* reference or its release: no peek, peek_mut, push, pop or drop starts
\* before the reference is gone, and none of them changes the chain.
C11_ExclusiveRef ==
  /\ [](pc # "idle" => lease[self] = Null)
  /\ [][\A l \in Lists :
          Borrowed(l) =>
            /\ pc' = "idle"
            /\ lastOp' \in {"write", "release"}
            /\ lease'[l] = IF lastOp' = "release" THEN Null ELSE lease[l]
            /\ UNCHANGED <<head, next, live, alive>>]_vars

\* The reference is alive after a write through it, on a list of two
\* elements or more.
C11_Witness ==
  /\ Idle /\ lease["generic"] # Null /\ lastOp = "write"
  /\ lease["generic"] = head["generic"]
  /\ next[head["generic"]] # Null

\* --------------------------------------------------------------- C12
\* What the calls made on list l so far leave on top of it.
TopOf(l) ==
  IF stack[l] = <<>> THEN None ELSE Some(stack[l][Len(stack[l])].now)

\* C12: with two lists in use, every step of a call on one list (new, push,
\* pop, peek, peek_mut, a write through its reference, drop) leaves the
\* other list as it was: the same head and the same borrow, and every node
\* of its chain still allocated with the same successor and element; and
\* every pop, peek and peek_mut on a list returns what the calls made on
\* that list alone determine, whatever was done to the other list in
\* between.
C12_NoSharedState ==
  /\ [][\A b \in Lists :
          (alive[b] /\ b # self') =>
            /\ alive'[b]
            /\ head'[b] = head[b]
            /\ lease'[b] = lease[b]
            /\ \A n \in Owned(head[b]) :
                  n \in live' /\ next'[n] = next[n] /\ elem'[n] = elem[n]]_vars
  /\ [][PopReturns => result' = TopOf(self)]_vars
  /\ [][(PeekStep \/ PeekMutStep) => result' = TopOf(self')]_vars

\* Two lists were pushed onto in turn (the node of the one was allocated
\* between the two nodes of the other), and a pop on the one has returned
\* its own element while the other still holds its two elements.
C12_Witness ==
  \E a, b \in Lists :
    /\ a # b /\ alive[a] /\ alive[b]
    /\ Idle /\ self = a /\ lastOp = "pop" /\ result = Some(2)
    /\ Contents(a) = <<>>
    /\ Contents(b) = <<2, 1>>
    /\ head[b] > next[head[b]] + 1

\* --------------------------------------------------------------- C13
\* A call on list self returns in this step.
Returns == pc # "idle" /\ pc' = "idle"

\* C13: run side by side on one sequence of push and pop calls, the three
\* implementations agree: when the Option-based or the generic list returns
\* from the call it repeats, it returns what the implementation before it
\* returned and holds the elements that one holds; and after every call of
\* the sequence the three lists hold the same elements in the same order.
C13_Equivalent ==
  /\ [][(Returns /\ self # "first") =>
          /\ prev.list = Follows(self)
          /\ prev'.op = prev.op /\ prev'.arg = prev.arg
          /\ prev'.ret = prev.ret
          /\ Contents(self)' = Contents(prev.list)]_vars
  /\ []((Idle /\ NewRound) =>
          \A l \in Lists : Contents(l) = Contents("first"))

\* The three lists have been through pushes and pops, a pop has returned 2
\* from the last of them, and each holds 5 on top of 1.
C13_Witness ==
  /\ Idle /\ prev = [list |-> "generic", op |-> "pop", arg |-> 0, ret |-> Some(2)]
  /\ \A l \in Lists : Contents(l) = <<5, 1>>

\* --------------------------------------------------------------- C14
\* A push on list self returns in this step.
PushReturns == pc = "push_set" /\ pc' = "idle"

\* C14: a push that has started allocates its node, links it and returns,
\* with no step that can fail; when push(e) returns on a list that held the
\* elements s in the chain c when the call began, the head is a new node
\* that is not in c, the successor of the new node is the previous head,
\* the chain is the new node followed by c and the elements are e followed
\* by s.
C14_PushFrame ==
  /\ [](pc = "push_box" => Nodes \ live # {})
  /\ [][pc = "push_box" => pc' = "push_set"]_vars
  /\ [][PushReturns =>
          /\ lastOp' = "push" /\ result' = None
          /\ head'[self] \in live' \ Range(entry.chain)
          /\ next'[head'[self]] =
                (IF entry.chain = <<>> THEN Null ELSE entry.chain[1])
          /\ Chain(head[self])' = <<head'[self]>> \o entry.chain
          /\ Contents(self)' = <<arg>> \o entry.elems]_vars

\* 5 has been pushed onto a list that held 1 under an element overwritten
\* with 42.
C14_Witness ==
  /\ Idle /\ lastOp = "push" /\ arg = 5
  /\ Contents("generic") = <<5, 42, 1>>

\* --------------------------------------------------------------- C15
\* The nodes this step releases.
Released == live \ live'

\* C15: nodes are released one at a time, at the end of pop and at the end
\* of each turn of the teardown loop, and a released node has an empty next
\* link when it is released: its successor was moved out before, so the
\* release of a node never releases another node, however long the list.
C15_FlatRelease ==
  [][\A n \in Released :
       /\ pc \in {"pop_free", "drop_free"}
       /\ n = (IF pc = "pop_free" THEN taken ELSE boxed_node)
       /\ next[n] = Null
       /\ Released = {n}]_vars

\* The teardown loop has released the first node of a list of MaxLen
\* elements and holds the rest of the chain, still allocated, in its
\* cursor.
C15_Witness ==
  /\ pc = "drop_loop" /\ dropN = MaxLen /\ iters = 1 /\ freed = 1
  /\ cur_link \in live /\ next[cur_link] \in live

\* --------------------------------------------------------------- C16
\* The reference peek_mut returned for list self' is written through in
\* this step.
WriteStep == pc = "idle" /\ pc' = "idle" /\ lastOp' = "write"

\* C16: a write through the reference peek_mut returned changes the element
\* of the head node and nothing else: the head, every next link and the set
\* of nodes are the same, so the list has the same length, and every
\* element below the top is the same; and a pop returns a value other than
\* the one pushed only for an element that was itself written while it was
\* on top, so the pops after the one that takes the written top return what
\* they would have returned without the write.
C16_WriteFrame ==
  /\ [][\A l \in Lists :
          (WriteStep /\ self' = l) =>
            /\ UNCHANGED <<head, next, live>>
            /\ head[l] # Null
            /\ elem'[head[l]] = arg'
            /\ \A n \in Nodes \ {head[l]} : elem'[n] = elem[n]
            /\ Len(Contents(l)') = Len(Contents(l))
            /\ \A i \in 2 .. Len(Contents(l)) :
                  Contents(l)'[i] = Contents(l)[i]]_vars
  /\ [][(PopReturns /\ stack[self] # <<>>) =>
          LET top == stack[self][Len(stack[self])] IN
            \/ result' = Some(top.pushed)
            \/ top.now \in Written /\ result' = Some(top.now)]_vars

\* 42 has been written over the 5 on top of a list of three elements, and
\* the two elements below are as they were pushed.
C16_Witness ==
  /\ Idle /\ self = "generic" /\ lastOp = "write" /\ arg = 42
  /\ Contents("generic") = <<42, 4, 1>>
  /\ stack["generic"] = <<[pushed |-> 1, now |-> 1], [pushed |-> 4, now |-> 4],
                          [pushed |-> 5, now |-> 42]>>

====
